---- MODULE Spec2Model ----
(***************************************************************************)
(* FolderSynchronizer (src/folder_synchronizer.py): a one-way mirror of a  *)
(* source tree onto a replica tree.  A pass scans both trees into          *)
(* manifests (relative path -> md5 digest, or None for a directory),       *)
(* compares the manifests and applies the added, removed and modified      *)
(* sets to the replica; periodic_sync repeats the pass forever.            *)
(*                                                                         *)
(* The two trees are modelled as maps from a finite universe of paths to   *)
(* entries.  A path is a sequence of names; <<>> is the root of a tree.    *)
(***************************************************************************)
EXTENDS Integers, Sequences, FiniteSets, TLC

VARIABLES
    source,          \* the tree under source_folder: path -> entry
    replica,         \* the tree under replica_folder: path -> entry
    source_hash,     \* self.source_hash
    replica_hash,    \* self.replica_hash
    added_files,     \* compare_hashes local
    removed_files,   \* compare_hashes local
    modified_files,  \* compare_hashes local
    message,         \* paths appended to the current summary message, in order
    log,             \* logger.info records of the current pass, in order
    exc_log,         \* logger.exception records of the current pass
    pc,              \* position of the single thread of control
    passes,          \* completed passes (saturating at MaxPasses)
    pass_replica     \* the replica tree as it was when the current pass began

vars == <<source, replica, source_hash, replica_hash, added_files, removed_files,
          modified_files, message, log, exc_log, pc, passes, pass_replica>>

-----------------------------------------------------------------------------
(* Bounds *)

\* number of distinct file contents
MaxContent == 2

\* the pass counter stops counting here (the loop itself never stops)
MaxPasses == 2

-----------------------------------------------------------------------------
(* Paths and trees *)

Root == <<>>

\* the relative paths the initial trees may hold
InitPaths == { <<"a">>, <<"a", "a">>, <<"b">> }

\* os.path.basename
Basename(p) == p[Len(p)]

\* os.path.dirname
Dirname(p) == SubSeq(p, 1, Len(p) - 1)

\* os.path.join(p, name)
Join(p, name) == Append(p, name)

\* every path a pass can touch: shutil.copy2 onto a directory writes
\* <directory>/<basename of the source>
Paths == InitPaths \cup { Join(p, Basename(p)) : p \in InitPaths }

AllPaths == Paths \cup {Root}

Contents == 1 .. MaxContent

Absent == [kind |-> "absent"]
Dir == [kind |-> "dir"]
File(c, r) == [kind |-> "file", data |-> c, readable |-> r]

Entries == {Absent, Dir} \cup { File(c, r) : c \in Contents, r \in BOOLEAN }

\* q is p or an ancestor of p
IsPrefix(q, p) == Len(q) <= Len(p) /\ SubSeq(p, 1, Len(q)) = q

\* os.path.exists / os.path.isdir / os.path.isfile
Exists(fs, p) == fs[p].kind # "absent"
IsDir(fs, p) == fs[p].kind = "dir"
IsFile(fs, p) == fs[p].kind = "file"

\* a tree of a filesystem: the root is a directory or missing, and every
\* entry lies in a directory
IsTree(fs) ==
    /\ fs[Root] \in {Absent, Dir}
    /\ \A p \in Paths : Exists(fs, p) => IsDir(fs, Dirname(p))

\* the trees a run may start from: any tree over InitPaths
InitTrees ==
    LET Extend(t) == [ p \in AllPaths |-> IF p \in DOMAIN t THEN t[p] ELSE Absent ]
    IN  { fs \in { Extend(t) : t \in [InitPaths \cup {Root} -> Entries] } :
            IsTree(fs) }

-----------------------------------------------------------------------------
(* _calculate_file_hash and process_directory *)

\* the directory marker stored for a directory
None == <<"None">>

\* hashlib.md5(...).hexdigest() of a file's bytes: distinct contents have
\* distinct digests
Md5(c) == <<"md5", c>>

\* mutant: a failed hash still yields an entry
HashFails_Never(fs, p) == FALSE

\* open(file_path, 'rb') raises for an unreadable file
HashFails(fs, p) == ~ fs[p].readable

_calculate_file_hash(fs, p) == Md5(fs[p].data)

Children(fs, top) == { p \in Paths : Dirname(p) = top /\ Exists(fs, p) }

\* os.walk(top): the (relative path, value) pairs process_directory stores
\* while walking the tree below top; scandir errors are ignored by os.walk,
\* so a missing top yields nothing
\* mutant: the walk does not descend into subdirectories
Walk_TopOnly(fs, top) ==
    IF ~ IsDir(fs, top) THEN {}
    ELSE LET dirs == { p \in Children(fs, top) : IsDir(fs, p) }
             files == { p \in Children(fs, top) : IsFile(fs, p) }
         IN  { <<d, None>> : d \in dirs }
             \cup { <<f, _calculate_file_hash(fs, f)>> :
                       f \in { g \in files : ~ HashFails(fs, g) } }

RECURSIVE Walk(_, _)
Walk(fs, top) ==
    IF ~ IsDir(fs, top) THEN {}
    ELSE LET dirs == { p \in Children(fs, top) : IsDir(fs, p) }
             files == { p \in Children(fs, top) : IsFile(fs, p) }
         IN  { <<d, None>> : d \in dirs }
             \cup { <<f, _calculate_file_hash(fs, f)>> :
                       f \in { g \in files : ~ HashFails(fs, g) } }
             \cup UNION { Walk(fs, d) : d \in dirs }

\* the files whose hashing raised during the walk below top
RECURSIVE WalkErrors(_, _)
WalkErrors(fs, top) ==
    IF ~ IsDir(fs, top) THEN {}
    ELSE LET dirs == { p \in Children(fs, top) : IsDir(fs, p) }
             files == { p \in Children(fs, top) : IsFile(fs, p) }
         IN  { f \in files : HashFails(fs, f) }
             \cup UNION { WalkErrors(fs, d) : d \in dirs }

\* process_directory(root): the returned hash_dict
process_directory(fs) ==
    LET pairs == Walk(fs, Root)
    IN  [ p \in { e[1] : e \in pairs } |-> (CHOOSE e \in pairs : e[1] = p)[2] ]

-----------------------------------------------------------------------------
(* compare_hashes: the three sets *)

\* mutant: the replica's keys are not subtracted
AddedOf_NoDifference(A, B) == DOMAIN A

AddedOf(A, B) == DOMAIN A \ DOMAIN B

RemovedOf(A, B) == DOMAIN B \ DOMAIN A

\* mutant: every common key is taken as modified
ModifiedOf_AllCommon(A, B) == DOMAIN A \cap DOMAIN B

ModifiedOf(A, B) == { file \in DOMAIN A \cap DOMAIN B : A[file] # B[file] }

-----------------------------------------------------------------------------
(* Filesystem primitives: each yields [ok, fs] *)

Ok(fs) == [ok |-> TRUE, fs |-> fs]
Raise(fs) == [ok |-> FALSE, fs |-> fs]

\* os.makedirs(p, exist_ok=True): raises when p or one of its ancestors is
\* not a directory; else p and its missing ancestors become directories
makedirs(fs, p) ==
    IF \E q \in AllPaths : IsPrefix(q, p) /\ IsFile(fs, q)
    THEN Raise(fs)
    ELSE Ok([ q \in AllPaths |-> IF IsPrefix(q, p) THEN Dir ELSE fs[q] ])

\* shutil.copy2(src, dst): dst names a directory -> the file is written
\* inside it under the source's basename; the copy carries the source's
\* bytes and permission bits
copy2(sfs, sp, dfs, dp) ==
    LET target == IF IsDir(dfs, dp) THEN Join(dp, Basename(sp)) ELSE dp
    IN  IF \/ ~ IsFile(sfs, sp)
           \/ ~ sfs[sp].readable
           \/ IsDir(dfs, target)
           \/ ~ IsDir(dfs, Dirname(target))
        THEN Raise(dfs)
        ELSE Ok([dfs EXCEPT ![target] = File(sfs[sp].data, sfs[sp].readable)])

\* shutil.rmtree(p)
rmtree(fs, p) == [ q \in AllPaths |-> IF IsPrefix(p, q) THEN Absent ELSE fs[q] ]

\* os.remove(p)
remove(fs, p) == [fs EXCEPT ![p] = Absent]

-----------------------------------------------------------------------------
(* compare_hashes: what one iteration of each loop does to the replica *)

\* mutant: the parent directory is not created before the copy
AddOne_NoParent(sfs, rfs, file) ==
    IF IsDir(sfs, file)
    THEN makedirs(rfs, file)
    ELSE copy2(sfs, file, rfs, file)

\* lines 60-66: the body of the loop over added_files
AddOne(sfs, rfs, file) ==
    IF IsDir(sfs, file)
    THEN makedirs(rfs, file)
    ELSE LET made == makedirs(rfs, Dirname(file))
         IN  IF made.ok THEN copy2(sfs, file, made.fs, file) ELSE made

\* mutant: no os.path.exists check before removing
RemoveOne_Unchecked(rfs, file) ==
    IF IsDir(rfs, file) THEN Ok(rmtree(rfs, file))
    ELSE IF Exists(rfs, file) THEN Ok(remove(rfs, file))
    ELSE Raise(rfs)

\* lines 73-78: the body of the loop over removed_files
RemoveOne(rfs, file) ==
    IF Exists(rfs, file)
    THEN IF IsDir(rfs, file) THEN Ok(rmtree(rfs, file)) ELSE Ok(remove(rfs, file))
    ELSE Ok(rfs)

\* lines 85-87: the body of the loop over modified_files
ModifyOne(sfs, rfs, file) == copy2(sfs, file, rfs, file)

Range(s) == { s[i] : i \in 1 .. Len(s) }

\* the paths of a loop's set that no iteration has taken yet
Pending(files) == files \ Range(message)

Entry(category, files) == [category |-> category, files |-> files]

-----------------------------------------------------------------------------
(* The state machine *)

Init ==
    /\ source \in InitTrees
    /\ replica \in InitTrees
    /\ source_hash = <<>>
    /\ replica_hash = <<>>
    /\ added_files = {}
    /\ removed_files = {}
    /\ modified_files = {}
    /\ message = <<>>
    /\ log = <<>>
    /\ exc_log = {}
    /\ pc = "start"
    /\ passes = 0
    /\ pass_replica = replica

\* periodic_sync, line 145
Start ==
    /\ pc = "start"
    /\ log' = <<Entry("Synchronizer started ...", <<>>)>>
    /\ pc' = "scan_source"
    /\ UNCHANGED <<source, replica, source_hash, replica_hash, added_files,
                   removed_files, modified_files, message, exc_log, passes,
                   pass_replica>>

\* mutant: a hashing error is not caught and ends the run
ScanSource_Propagates ==
    /\ pc = "scan_source"
    /\ source_hash' = process_directory(source)
    /\ exc_log' = {}
    /\ log' = <<>>
    /\ pass_replica' = replica
    /\ pc' = IF WalkErrors(source, Root) = {} THEN "scan_replica" ELSE "crashed"
    /\ UNCHANGED <<source, replica, replica_hash, added_files, removed_files,
                   modified_files, message, passes>>

\* sync_folders, line 134
ScanSource ==
    /\ pc = "scan_source"
    /\ source_hash' = process_directory(source)
    /\ exc_log' = { <<"source", f>> : f \in WalkErrors(source, Root) }
    /\ log' = <<>>
    /\ pass_replica' = replica
    /\ pc' = "scan_replica"
    /\ UNCHANGED <<source, replica, replica_hash, added_files, removed_files,
                   modified_files, message, passes>>

\* mutant: the new scan is merged into the manifest held from the last pass
ScanReplica_Merges ==
    /\ pc = "scan_replica"
    /\ LET scanned == process_directory(replica)
       IN  replica_hash' =
             [ p \in DOMAIN replica_hash \cup DOMAIN scanned |->
                 IF p \in DOMAIN scanned THEN scanned[p] ELSE replica_hash[p] ]
    /\ exc_log' = exc_log \cup { <<"replica", f>> : f \in WalkErrors(replica, Root) }
    /\ pc' = "compare"
    /\ UNCHANGED <<source, replica, source_hash, added_files, removed_files,
                   modified_files, message, log, passes, pass_replica>>

\* sync_folders, line 135
ScanReplica ==
    /\ pc = "scan_replica"
    /\ replica_hash' = process_directory(replica)
    /\ exc_log' = exc_log \cup { <<"replica", f>> : f \in WalkErrors(replica, Root) }
    /\ pc' = "compare"
    /\ UNCHANGED <<source, replica, source_hash, added_files, removed_files,
                   modified_files, message, log, passes, pass_replica>>

\* compare_hashes, lines 49-55
Compare ==
    /\ pc = "compare"
    /\ added_files' = AddedOf(source_hash, replica_hash)
    /\ removed_files' = RemovedOf(source_hash, replica_hash)
    /\ modified_files' = ModifiedOf(source_hash, replica_hash)
    /\ message' = <<>>
    /\ pc' = "added"
    /\ UNCHANGED <<source, replica, source_hash, replica_hash, log, exc_log,
                   passes, pass_replica>>

\* mutant: the summary is logged without the test of line 57
AddedSkip_Logs ==
    /\ pc = "added"
    /\ added_files = {}
    /\ log' = Append(log, Entry("Added files:", <<>>))
    /\ pc' = "removed"
    /\ UNCHANGED <<source, replica, source_hash, replica_hash, added_files,
                   removed_files, modified_files, message, exc_log, passes,
                   pass_replica>>

\* line 57, added_files empty
AddedSkip ==
    /\ pc = "added"
    /\ added_files = {}
    /\ pc' = "removed"
    /\ UNCHANGED <<source, replica, source_hash, replica_hash, added_files,
                   removed_files, modified_files, message, log, exc_log, passes,
                   pass_replica>>

\* lines 59-67: one iteration, the set's iteration order being arbitrary
AddFile ==
    /\ pc = "added"
    /\ \E file \in Pending(added_files) :
         LET r == AddOne(source, replica, file)
         IN  /\ replica' = r.fs
             /\ message' = IF r.ok THEN Append(message, file) ELSE message
             /\ pc' = IF r.ok THEN "added" ELSE "crashed"
    /\ UNCHANGED <<source, source_hash, replica_hash, added_files, removed_files,
                   modified_files, log, exc_log, passes, pass_replica>>

\* line 68
AddedLog ==
    /\ pc = "added"
    /\ added_files # {}
    /\ Pending(added_files) = {}
    /\ log' = Append(log, Entry("Added files:", message))
    /\ message' = <<>>
    /\ pc' = "removed"
    /\ UNCHANGED <<source, replica, source_hash, replica_hash, added_files,
                   removed_files, modified_files, exc_log, passes, pass_replica>>

\* line 70, removed_files empty
RemovedSkip ==
    /\ pc = "removed"
    /\ removed_files = {}
    /\ pc' = "modified"
    /\ UNCHANGED <<source, replica, source_hash, replica_hash, added_files,
                   removed_files, modified_files, message, log, exc_log, passes,
                   pass_replica>>

\* lines 72-79: one iteration
RemoveFile ==
    /\ pc = "removed"
    /\ \E file \in Pending(removed_files) :
         LET r == RemoveOne(replica, file)
         IN  /\ replica' = r.fs
             /\ message' = IF r.ok THEN Append(message, file) ELSE message
             /\ pc' = IF r.ok THEN "removed" ELSE "crashed"
    /\ UNCHANGED <<source, source_hash, replica_hash, added_files, removed_files,
                   modified_files, log, exc_log, passes, pass_replica>>

\* line 80
RemovedLog ==
    /\ pc = "removed"
    /\ removed_files # {}
    /\ Pending(removed_files) = {}
    /\ log' = Append(log, Entry("Removed files:", message))
    /\ message' = <<>>
    /\ pc' = "modified"
    /\ UNCHANGED <<source, replica, source_hash, replica_hash, added_files,
                   removed_files, modified_files, exc_log, passes, pass_replica>>

\* the pass counter after a pass has returned
Counted(n) == IF n < MaxPasses THEN n + 1 ELSE n

\* line 82, modified_files empty: compare_hashes and sync_folders return
ModifiedSkip ==
    /\ pc = "modified"
    /\ modified_files = {}
    /\ pc' = "sleep"
    /\ passes' = Counted(passes)
    /\ UNCHANGED <<source, replica, source_hash, replica_hash, added_files,
                   removed_files, modified_files, message, log, exc_log,
                   pass_replica>>

\* mutant: copy_file is called with its arguments the wrong way round
ModifyFile_Reversed ==
    /\ pc = "modified"
    /\ \E file \in Pending(modified_files) :
         LET r == copy2(replica, file, source, file)
         IN  /\ source' = r.fs
             /\ message' = IF r.ok THEN Append(message, file) ELSE message
             /\ pc' = IF r.ok THEN "modified" ELSE "crashed"
    /\ UNCHANGED <<replica, source_hash, replica_hash, added_files, removed_files,
                   modified_files, log, exc_log, passes, pass_replica>>

\* lines 84-88: one iteration
ModifyFile ==
    /\ pc = "modified"
    /\ \E file \in Pending(modified_files) :
         LET r == ModifyOne(source, replica, file)
         IN  /\ replica' = r.fs
             /\ message' = IF r.ok THEN Append(message, file) ELSE message
             /\ pc' = IF r.ok THEN "modified" ELSE "crashed"
    /\ UNCHANGED <<source, source_hash, replica_hash, added_files, removed_files,
                   modified_files, log, exc_log, passes, pass_replica>>

\* line 89: compare_hashes and sync_folders return
ModifiedLog ==
    /\ pc = "modified"
    /\ modified_files # {}
    /\ Pending(modified_files) = {}
    /\ log' = Append(log, Entry("Modified files:", message))
    /\ message' = <<>>
    /\ pc' = "sleep"
    /\ passes' = Counted(passes)
    /\ UNCHANGED <<source, replica, source_hash, replica_hash, added_files,
                   removed_files, modified_files, exc_log, pass_replica>>

\* mutant: a failed pass is caught and the loop goes on
Sleep_Retry ==
    /\ pc \in {"sleep", "crashed"}
    /\ pc' = "scan_source"
    /\ UNCHANGED <<source, replica, source_hash, replica_hash, added_files,
                   removed_files, modified_files, message, log, exc_log, passes,
                   pass_replica>>

\* mutant: the loop body runs once
Sleep_Once ==
    /\ pc = "sleep"
    /\ pc' = "done"
    /\ UNCHANGED <<source, replica, source_hash, replica_hash, added_files,
                   removed_files, modified_files, message, log, exc_log, passes,
                   pass_replica>>

\* periodic_sync, lines 146-148: time.sleep returns and the loop goes round
Sleep ==
    /\ pc = "sleep"
    /\ pc' = "scan_source"
    /\ UNCHANGED <<source, replica, source_hash, replica_hash, added_files,
                   removed_files, modified_files, message, log, exc_log, passes,
                   pass_replica>>

Next ==
    \/ Start
    \/ ScanSource
    \/ ScanReplica
    \/ Compare
    \/ AddedSkip
    \/ AddFile
    \/ AddedLog
    \/ RemovedSkip
    \/ RemoveFile
    \/ RemovedLog
    \/ ModifiedSkip
    \/ ModifyFile
    \/ ModifiedLog
    \/ Sleep

Spec == Init /\ [][Next]_vars

\* the single thread always takes its next step; time.sleep returns
FairSpec == Init /\ [][Next]_vars /\ WF_vars(Next)

-----------------------------------------------------------------------------
(* Properties *)

InApply == pc \in {"added", "removed", "modified"}

\* C1: convergence.  When a pass has finished, a fresh scan of the replica
\* equals a fresh scan of the source (same keys, same directory markers,
\* same digests), also when a path is a file in one tree and a directory in
\* the other.
C1_Convergence ==
    pc = "sleep" => process_directory(replica) = process_directory(source)

\* C2: idempotence.  A pass that follows a completed pass computes empty
\* added, removed and modified sets and leaves the replica as it found it.
C2_Idempotence ==
    (passes >= 1 /\ InApply) =>
        /\ added_files = {}
        /\ removed_files = {}
        /\ modified_files = {}
        /\ replica = pass_replica

\* C3: a missing source root is a fatal scan error.  With the source root
\* missing, the pass never gets to the diff or to an apply action and the
\* replica stays as it was when the pass began.
C3_MissingRootAbortsPass ==
    ~ Exists(source, Root) =>
        /\ pc \notin {"added", "removed", "modified", "sleep"}
        /\ replica = pass_replica

\* C4: a path is in the modified set only when both manifests hold it as a
\* file and the digests differ; a path that is a directory in one manifest
\* and a file in the other is never in the modified set.
C4_ModifiedOnlyFiles ==
    InApply =>
        \A file \in modified_files :
            /\ file \in DOMAIN source_hash \cap DOMAIN replica_hash
            /\ source_hash[file] # None
            /\ replica_hash[file] # None
            /\ source_hash[file] # replica_hash[file]

\* C5: the added, removed and modified sets computed from the two manifests
\* are pairwise disjoint, hold only keys of the manifests, and are all empty
\* when the two manifests are the same manifest.
C5_DiffSets ==
    InApply =>
        /\ added_files \cap removed_files = {}
        /\ added_files \cap modified_files = {}
        /\ removed_files \cap modified_files = {}
        /\ (added_files \cup removed_files \cup modified_files)
               \subseteq (DOMAIN source_hash \cup DOMAIN replica_hash)
        /\ source_hash = replica_hash =>
               added_files = {} /\ removed_files = {} /\ modified_files = {}

\* a diff in which all three sets are non-empty
C5_Witness ==
    /\ pc = "added"
    /\ added_files # {}
    /\ removed_files # {}
    /\ modified_files # {}

-----------------------------------------------------------------------------
(* Scanning *)

\* the manifest with one entry per file and one per non-root directory of fs
FullManifest(fs) ==
    [ p \in { q \in Paths : Exists(fs, q) } |->
        IF IsDir(fs, p) THEN None ELSE Md5(fs[p].data) ]

\* the same, without the files that cannot be hashed
HashableManifest(fs) ==
    [ p \in { q \in Paths : IsDir(fs, q) \/ (IsFile(fs, q) /\ fs[q].readable) } |->
        IF IsDir(fs, p) THEN None ELSE Md5(fs[p].data) ]

\* C6 as stated: the manifest a scan returns holds exactly one entry per file
\* of the tree (its digest) and one per non-root directory (the marker),
\* keyed by relative path, nothing for the root and nothing else.
C6_ScanExact ==
    /\ pc = "scan_replica" => source_hash = FullManifest(source)
    /\ pc = "compare" => replica_hash = FullManifest(replica)

\* C6 amended: the manifest a scan returns holds exactly one entry per file
\* of the tree whose hashing succeeds (its digest) and one per non-root
\* directory (the marker), keyed by relative path, nothing for the root and
\* nothing else.
C6_ScanExactHashable ==
    /\ pc = "scan_replica" => source_hash = HashableManifest(source)
    /\ pc = "compare" => replica_hash = HashableManifest(replica)

\* a scanned source with a nested file and a file that cannot be hashed
C6_Witness ==
    /\ pc = "scan_replica"
    /\ <<"a", "a">> \in DOMAIN source_hash
    /\ source_hash[<<"a", "a">>] # None
    /\ IsFile(source, <<"b">>)
    /\ ~ source[<<"b">>].readable

Unhashable(fs) == { p \in Paths : IsFile(fs, p) /\ ~ fs[p].readable }

Hashable(fs) == { p \in Paths : Exists(fs, p) } \ Unhashable(fs)

\* C7: a file whose hashing fails during a scan is logged as an exception
\* and left out of the manifest, every other file and every directory of the
\* tree still gets its entry, and the pass goes on to the diff and the apply.
C7_HashFailureSkipsFile ==
    /\ [](/\ pc = "scan_replica" =>
                /\ \A f \in Unhashable(source) :
                       f \notin DOMAIN source_hash /\ <<"source", f>> \in exc_log
                /\ Hashable(source) \subseteq DOMAIN source_hash
          /\ pc = "compare" =>
                /\ \A f \in Unhashable(replica) :
                       f \notin DOMAIN replica_hash /\ <<"replica", f>> \in exc_log
                /\ Hashable(replica) \subseteq DOMAIN replica_hash)
    /\ [][/\ pc = "scan_source" => pc' = "scan_replica"
          /\ pc = "scan_replica" => pc' = "compare"
          /\ pc = "compare" => pc' = "added"]_vars

\* the apply phase of a pass whose source scan skipped a file and kept another
C7_Witness ==
    /\ pc = "added"
    /\ \E f \in Unhashable(source) : <<"source", f>> \in exc_log
    /\ source_hash # <<>>

-----------------------------------------------------------------------------
(* Applying *)

Last(s) == s[Len(s)]

\* C8: applying the removed set never raises and leaves no removed path in
\* the replica, in whatever order the paths are taken: an existing directory
\* goes with everything below it, an existing file goes, a path already gone
\* is a no-op, and once the set is done none of its paths exists.
C8_RemovedApplied ==
    /\ []((pc = "removed" /\ Pending(removed_files) = {}) =>
              \A p \in removed_files : ~ Exists(replica, p))
    /\ [][pc = "removed" =>
            /\ pc' # "crashed"
            /\ Len(message') = Len(message) + 1 =>
                 LET file == Last(message')
                 IN  /\ ~ Exists(replica, file) => replica' = replica
                     /\ \A q \in AllPaths :
                          replica'[q] = IF IsPrefix(file, q) THEN Absent
                                        ELSE replica[q]]_vars

\* a removed directory taken before its own descendant, which is then gone
C8_Witness ==
    /\ pc = "removed"
    /\ message = << <<"a">>, <<"a", "a">> >>
    /\ IsDir(pass_replica, <<"a">>)
    /\ Exists(pass_replica, <<"a", "a">>)

\* C9: an error raised while applying ends the run: from then on the replica
\* is not touched, no pass is started and none is counted; and an iteration
\* that raised is never taken as done.
C9_ErrorTerminates ==
    [][/\ pc = "crashed" =>
            pc' = "crashed" /\ replica' = replica /\ passes' = passes
       /\ (pc = "added" /\ Len(message') = Len(message) + 1) =>
            AddOne(source, replica, Last(message')).ok
       /\ (pc = "modified" /\ Len(message') = Len(message) + 1) =>
            ModifyOne(source, replica, Last(message')).ok
       /\ (pc' = "crashed" /\ pc # "crashed") =>
            /\ pc \in {"added", "modified"}
            /\ message' = message]_vars

\* a run ended by an error after part of the pass was applied
C9_Witness ==
    /\ pc = "crashed"
    /\ Len(message) >= 1
    /\ Pending(modified_files) # {}

-----------------------------------------------------------------------------
(* Scheduling *)

\* the positions that may follow each position of the thread
Successors(at) ==
    CASE at = "start" -> {"scan_source"}
      [] at = "scan_source" -> {"scan_replica"}
      [] at = "scan_replica" -> {"compare"}
      [] at = "compare" -> {"added"}
      [] at = "added" -> {"added", "removed", "crashed"}
      [] at = "removed" -> {"removed", "modified"}
      [] at = "modified" -> {"modified", "sleep", "crashed"}
      [] at = "sleep" -> {"scan_source"}
      [] OTHER -> {}

\* C10: passes run one after another, forever.  Within a pass the steps come
\* in the order scan source, scan replica, diff, apply; a pass starts only
\* from the start of the run or from the sleep after the previous pass; and
\* unless a pass raises, every pass finishes and every finished pass is
\* followed by another.
C10_SequentialForever ==
    /\ [][pc' \in Successors(pc)]_vars
    /\ (pc = "sleep") ~> (pc = "scan_source")
    /\ (pc = "scan_source") ~> (pc = "sleep" \/ pc = "crashed")

\* a third pass starting
C10_Witness ==
    /\ pc = "scan_source"
    /\ passes >= 2

-----------------------------------------------------------------------------
(* Frame *)

\* C11: one-way mirroring.  No step of a pass creates, deletes or changes
\* anything in the source tree; whatever a pass writes, it writes in the
\* replica tree.
C11_SourceUntouched ==
    [][source' = source]_vars

\* a finished pass that removed and overwrote entries of the replica
C11_Witness ==
    /\ pc = "sleep"
    /\ \E p \in Paths : ~ Exists(replica, p) /\ Exists(pass_replica, p)
    /\ \E p \in Paths : /\ IsFile(replica, p) /\ IsFile(pass_replica, p)
                        /\ replica[p] # pass_replica[p]

-----------------------------------------------------------------------------
(* Logging *)

\* the set a summary entry reports
CategorySet(category) ==
    CASE category = "Added files:" -> added_files
      [] category = "Removed files:" -> removed_files
      [] category = "Modified files:" -> modified_files

NonEmptyCategory(category) == CategorySet(category) # {}

\* the categories a completed pass has to report, in order
ReportedCategories ==
    SelectSeq(<<"Added files:", "Removed files:", "Modified files:">>,
              NonEmptyCategory)

\* C12: a completed pass has logged exactly one summary entry for each
\* non-empty category and none for an empty one, in the order added, removed,
\* modified, and each entry lists exactly the paths of its category, each
\* path once.
C12_SummaryPerCategory ==
    pc = "sleep" =>
        /\ Len(log) = Len(ReportedCategories)
        /\ \A i \in 1 .. Len(log) :
             /\ log[i].category = ReportedCategories[i]
             /\ Range(log[i].files) = CategorySet(log[i].category)
             /\ Len(log[i].files) = Cardinality(CategorySet(log[i].category))

\* a completed pass with two entries in a category and an empty category
C12_Witness ==
    /\ pc = "sleep"
    /\ Len(log) = 2
    /\ \E i \in 1 .. Len(log) : Len(log[i].files) = 2

-----------------------------------------------------------------------------
(* The held manifests *)

\* C13: the held manifests are replaced wholesale on every pass.  When the
\* diff is computed both manifests are the scans of this pass, so every key
\* of either manifest, and every path of the added, removed and modified
\* sets, is on disk in the tree it was scanned from at the start of the
\* pass: a path of an earlier pass that is gone is in none of them.
C13_ManifestsReplaced ==
    /\ pc = "compare" =>
         /\ source_hash = HashableManifest(source)
         /\ replica_hash = HashableManifest(replica)
    /\ InApply =>
         /\ \A p \in DOMAIN source_hash : Exists(source, p)
         /\ \A p \in DOMAIN replica_hash : Exists(pass_replica, p)
         /\ \A p \in added_files \cup modified_files : Exists(source, p)
         /\ \A p \in removed_files \cup modified_files : Exists(pass_replica, p)

\* a later pass about to compute its diff: the paths the pass before removed
\* (its removed set is still in place) are off the disk and in no manifest
C13_Witness ==
    /\ pc = "compare"
    /\ passes >= 1
    /\ removed_files # {}
    /\ \A p \in removed_files :
         /\ ~ Exists(replica, p)
         /\ p \notin DOMAIN replica_hash
         /\ p \notin DOMAIN source_hash

-----------------------------------------------------------------------------
(* Applying the added set *)

\* the replica held, when the pass began, a file where the source holds a
\* directory
KindConflict ==
    \E q \in Paths : IsDir(source, q) /\ IsFile(pass_replica, q)

\* C14: when the replica holds no entry of a conflicting kind, applying the
\* added set never raises, in whatever order its paths are taken (a file
\* before or after its parent directory), and once the set is done every
\* added path is in the replica: a directory where the source holds a
\* directory, else a file with the source's content.
C14_AddedApplied ==
    /\ []((pc = "added" /\ Pending(added_files) = {} /\ ~ KindConflict) =>
              \A p \in added_files :
                  IF IsDir(source, p)
                  THEN IsDir(replica, p)
                  ELSE /\ IsFile(replica, p)
                       /\ replica[p].data = source[p].data)
    /\ [][(pc = "added" /\ ~ KindConflict) => pc' # "crashed"]_vars

\* an added file taken before its added parent directory
C14_Witness ==
    /\ pc = "added"
    /\ ~ KindConflict
    /\ ~ Exists(pass_replica, <<"a">>)
    /\ message = << <<"a", "a">>, <<"a">> >>
    /\ IsFile(replica, <<"a", "a">>)

-----------------------------------------------------------------------------
(* A source file that cannot be hashed *)

\* the source holds a file at p whose hashing fails and the replica held a
\* readable file at p when the pass began
Shadowed(p) ==
    /\ IsFile(source, p)
    /\ ~ source[p].readable
    /\ IsFile(pass_replica, p)
    /\ pass_replica[p].readable

\* C15: a source file whose hashing fails, with a readable file at the same
\* path in the replica, is taken as not present: the path is in the removed
\* set (and in no other), and once the removed set is applied the replica's
\* copy is gone for the rest of the pass, although the source still holds
\* the file.
C15_UnhashedSourceRemovesCopy ==
    \A p \in Paths :
        Shadowed(p) =>
            /\ InApply =>
                 /\ p \in removed_files
                 /\ p \notin added_files \cup modified_files
            /\ pc \in {"modified", "sleep"} =>
                 /\ ~ Exists(replica, p)
                 /\ Exists(source, p)

\* a completed pass that deleted the replica's copy of such a file
C15_Witness ==
    /\ pc = "sleep"
    /\ \E p \in Paths : Shadowed(p) /\ ~ Exists(replica, p)

-----------------------------------------------------------------------------
(* What a pass may add to the replica *)

\* C16: a pass introduces no entry the source does not have: every path that
\* exists in the replica and did not exist there when the pass began is a
\* key of the pass's source manifest.
C16_NoForeignEntries ==
    pc \notin {"start", "scan_source"} =>
        \A p \in Paths :
            (Exists(replica, p) /\ ~ Exists(pass_replica, p)) =>
                p \in DOMAIN source_hash

-----------------------------------------------------------------------------
(* Minimality *)

\* the two manifests hold the same entry at p
SameEntry(p) ==
    /\ p \in DOMAIN source_hash \cap DOMAIN replica_hash
    /\ source_hash[p] = replica_hash[p]

\* C17: the action set is minimal.  A path whose entry is the same in both
\* manifests (a file with the same digest, or a directory on both sides) is
\* in none of the three sets, so no iteration copies, creates or removes it,
\* and no iteration on another path changes it: it stays as it was when the
\* pass began.
C17_EqualEntriesUntouched ==
    (InApply \/ pc \in {"sleep", "crashed"}) =>
        \A p \in Paths :
            SameEntry(p) =>
                /\ p \notin added_files \cup removed_files \cup modified_files
                /\ replica[p] = pass_replica[p]

\* a completed pass that changed the replica beside an equal directory and
\* an equal file
C17_Witness ==
    /\ pc = "sleep"
    /\ replica # pass_replica
    /\ \E p \in Paths : SameEntry(p) /\ source_hash[p] = None
    /\ \E p \in Paths : SameEntry(p) /\ source_hash[p] # None

====
